---- MODULE Spec2Model ----
(***************************************************************************)
(* ModuleNet (vr/models/module_net.py): the module registry built by the   *)
(* constructor, the three program evaluators dispatched by forward, and    *)
(* expand_answer_vocab.  Tensors produced by the learned modules are kept  *)
(* symbolic: the output of a module call is the term                       *)
(*   <<module instance id, conditioning row, <<input terms>>>>             *)
(* and the feature map of example i is the term <<0, i, <<>>>>.            *)
(* The last part models generate_dataset (scripts/generate_flatqa.py),     *)
(* which writes the programs and the vocabulary the model is built from.   *)
(***************************************************************************)
EXTENDS Integers, Sequences, FiniteSets, TLC

VARIABLES
  phase,                        \* "ready", or the exception raised by __init__
  use_film,                     \* self.use_film
  sharing_patterns,             \* self.sharing_patterns, 0-based as <<sp0, sp1>>
  vocab,                        \* self.vocab
  function_modules,             \* self.function_modules
  function_modules_num_inputs,  \* self.function_modules_num_inputs
  fn_str_2_filmId,              \* self.fn_str_2_filmId
  gammas,                       \* self.gammas / self.betas (same shape)
  classifier,                   \* final Linear layer of self.classifier
  save_module_outputs,          \* self.save_module_outputs
  all_module_outputs,           \* self.all_module_outputs
  used_fns,                     \* self.used_fns
  x,                            \* the batch handed to forward: its number of examples
  program,                      \* the program handed to forward
  call,                         \* the last call made on the object and its outcome
  flatqa                        \* the run of generate_dataset (generate_flatqa.py)

vars == <<phase, use_film, sharing_patterns, vocab, function_modules,
          function_modules_num_inputs, fn_str_2_filmId, gammas, classifier,
          save_module_outputs, all_module_outputs, used_fns, x, program, call,
          flatqa>>

(***************************************************************************)
(* Bounds of the model.                                                    *)
(***************************************************************************)
MaxBatch == 2
MaxLen == 3
MaxNodes == 5
MaxOtherNodes == 2
MaxListLen == 2
MaxAnswerId == 3
MaxExamples == 2
MaxObjects == 2

(***************************************************************************)
(* Python dictionaries are functions; d[k] = v is Put(d, k, v).            *)
(***************************************************************************)
EmptyDict == [k \in {} |-> 0]

Put(d, k, v) == [q \in (DOMAIN d) \cup {k} |-> IF q = k THEN v ELSE d[q]]

Max(S) == CHOOSE m \in S : \A q \in S : q <= m

(***************************************************************************)
(* The vocabulary written by generate_dataset (save_vocab): the program    *)
(* words in id order, and the arity of each.                               *)
(***************************************************************************)
arity(token) ==
  IF token = "And" THEN 2
  ELSE IF token = "scene" THEN 0
  ELSE 1

program_words == <<"<NULL>", "<START>", "<END>", "scene", "And", "red", "square">>

\* the entries of a vocabulary in iteration order of program_token_to_idx
Names(ws) == {ws[k] : k \in DOMAIN ws}

MakeVocab(ws, ar) ==
  [program_token_to_idx |-> ws,
   program_token_arity  |-> [w \in Names(ws) |-> ar[w]],
   num_answers          |-> 2]

FlatQAVocab == MakeVocab(program_words, [w \in Names(program_words) |-> arity(w)])

Vocabs == {FlatQAVocab}

\* vocab['program_idx_to_token'][idx], ids counted from 0
program_idx_to_token(v, idx) == v.program_token_to_idx[idx + 1]

NumTokens(v) == Len(v.program_token_to_idx)

(***************************************************************************)
(* Module instances.  Every allocation yields a fresh instance id.         *)
(***************************************************************************)
NoModule == [id |-> 0, family |-> "unbound"]

NewModule(n, fam) == [id |-> n, family |-> fam]

\* number of positional tensor inputs the forward of each family accepts
FamilyInputs(fam) ==
  IF fam \in {"ConcatBlock", "ConcatFiLMedResBlock"} THEN 2 ELSE 1

(***************************************************************************)
(* declare_film_coefficients, called with the attributes set so far.       *)
(***************************************************************************)
NoTable == [isNone |-> TRUE, rows |-> 0]

declare_film_coefficients(attrs, film_on, film_ids) ==
  IF film_on
    THEN IF "fn_str_2_filmId" \notin attrs
           THEN [err |-> "AttributeError", table |-> NoTable]
           ELSE IF "module_dim" \notin attrs
                  THEN [err |-> "AttributeError", table |-> NoTable]
                  ELSE [err |-> "ok",
                        table |-> [isNone |-> FALSE,
                                   rows |-> Cardinality(DOMAIN film_ids)]]
    ELSE [err |-> "ok", table |-> NoTable]

(***************************************************************************)
(* The registry loop of __init__ (lines 88-162).  The loop state holds the *)
(* three dictionaries and the locals mod, stored_name and newModule, which *)
(* keep their value from one iteration to the next.                        *)
(***************************************************************************)
LoopStart ==
  [function_modules |-> EmptyDict,
   function_modules_num_inputs |-> EmptyDict,
   fn_str_2_filmId |-> EmptyDict,
   mod |-> NoModule, stored_name |-> "", newModule |-> FALSE,
   bound |-> {}, nextId |-> 1, err |-> "ok"]

\* lines 92-97: the conditioning id of fn_str
AssignFilmId(film_on, sp, ids, fn_str, num_inputs) ==
  IF film_on
    THEN IF sp[2] = 1
           THEN LET numId == IF fn_str = "scence" THEN 1 ELSE num_inputs
                IN  Put(ids, ToString(numId), numId - 1)
           ELSE Put(ids, fn_str, Cardinality(DOMAIN ids))
    ELSE ids

\* lines 99-154: choose or allocate the module of fn_str
ChooseModule(film_on, sp, s, fn_str, num_inputs) ==
  IF fn_str = "scene" \/ num_inputs = 1
    THEN IF film_on
           THEN IF sp[1] = 1 /\ "1" \in DOMAIN s.function_modules
                  THEN [s EXCEPT !.mod = s.function_modules["1"],
                                 !.stored_name = "1", !.newModule = FALSE,
                                 !.bound = {"mod", "stored_name", "newModule"}]
                  ELSE [s EXCEPT !.mod = NewModule(s.nextId, "FiLMedResBlock"),
                                 !.nextId = s.nextId + 1,
                                 !.stored_name = IF sp[1] = 1 THEN "1" ELSE fn_str,
                                 !.newModule = TRUE,
                                 !.bound = {"mod", "stored_name", "newModule"}]
           ELSE [s EXCEPT !.mod = NewModule(s.nextId, "ResidualBlock"),
                          !.nextId = s.nextId + 1,
                          !.bound = s.bound \cup {"mod"}]
    ELSE IF num_inputs = 2
      THEN IF film_on
             THEN IF sp[1] = 1 /\ "2" \in DOMAIN s.function_modules
                    THEN [s EXCEPT !.mod = s.function_modules["2"],
                                   !.stored_name = "2", !.newModule = FALSE,
                                   !.bound = {"mod", "stored_name", "newModule"}]
                    ELSE [s EXCEPT !.mod = NewModule(s.nextId, "ConcatFiLMedResBlock"),
                                   !.nextId = s.nextId + 1,
                                   !.stored_name = IF sp[1] = 1 THEN "2" ELSE fn_str,
                                   !.newModule = TRUE,
                                   !.bound = {"mod", "stored_name", "newModule"}]
             ELSE [s EXCEPT !.mod = NewModule(s.nextId, "ConcatBlock"),
                            !.nextId = s.nextId + 1,
                            !.bound = s.bound \cup {"mod"}]
      ELSE s

\* lines 156-162: store the module in the registry
StoreModule(film_on, s, fn_str) ==
  IF film_on
    THEN IF "newModule" \notin s.bound
           THEN [s EXCEPT !.err = "UnboundLocalError"]
           ELSE IF s.newModule
                  THEN [s EXCEPT !.function_modules =
                                    Put(s.function_modules, s.stored_name, s.mod)]
                  ELSE s
    ELSE IF "mod" \notin s.bound
           THEN [s EXCEPT !.err = "UnboundLocalError"]
           ELSE [s EXCEPT !.function_modules =
                             Put(s.function_modules, fn_str, s.mod)]

\* one iteration of the loop, for the entry fn_str
LoopBody(film_on, sp, v, s, fn_str) ==
  LET num_inputs == v.program_token_arity[fn_str]
      s1 == [s EXCEPT !.function_modules_num_inputs =
                         Put(s.function_modules_num_inputs, fn_str, num_inputs),
                      !.fn_str_2_filmId =
                         AssignFilmId(film_on, sp, s.fn_str_2_filmId, fn_str, num_inputs)]
      s2 == ChooseModule(film_on, sp, s1, fn_str, num_inputs)
  IN  StoreModule(film_on, s2, fn_str)

RECURSIVE RegistryLoop(_, _, _, _, _)
RegistryLoop(film_on, sp, v, s, k) ==
  IF k > Len(v.program_token_to_idx) \/ s.err # "ok"
    THEN s
    ELSE RegistryLoop(film_on, sp, v,
                      LoopBody(film_on, sp, v, s, v.program_token_to_idx[k]), k + 1)

(***************************************************************************)
(* The final Linear layer of the classifier: one weight row and one bias   *)
(* per answer.  Weight rows are abstract values.                           *)
(***************************************************************************)
\* the layer built by build_classifier: row k carries the trained values
\* named k (weights) and k (bias)
build_classifier(n) == [weight |-> [k \in 1..n |-> k], bias |-> [k \in 1..n |-> k]]

(***************************************************************************)
(* Values.  feats[i:i+1] is Feat(i); the output of a module call is a term *)
(* naming the instance, the conditioning row (-1 without conditioning) and *)
(* the inputs.                                                             *)
(***************************************************************************)
Feat(i) == <<0, i, <<>>>>

NoOutput == <<-1, -1, <<>>>>

\* module(*module_inputs): Python rejects a call with the wrong number of
\* positional arguments
CallModule(module, module_inputs) ==
  IF Len(module_inputs) # FamilyInputs(module.family)
    THEN [err |-> "TypeError", output |-> NoOutput]
    ELSE [err |-> "ok", output |-> <<module.id, -1, module_inputs>>]

\* the object as the evaluators read it
Self ==
  [use_film |-> use_film, sharing_patterns |-> sharing_patterns, vocab |-> vocab,
   function_modules |-> function_modules,
   function_modules_num_inputs |-> function_modules_num_inputs,
   fn_str_2_filmId |-> fn_str_2_filmId,
   save_module_outputs |-> save_module_outputs]

\* variant: a name without an entry is given the module of scene
RegistryGet_default(d, k) ==
  [err |-> "ok", module |-> IF k \in DOMAIN d THEN d[k] ELSE d["scene"]]

\* self.function_modules[k] (lines 212 and 262): a dictionary subscription,
\* KeyError for a key that has no entry
RegistryGet(d, k) ==
  IF k \in DOMAIN d
    THEN [err |-> "ok", module |-> d[k]]
    ELSE [err |-> "KeyError", module |-> NoModule]

(***************************************************************************)
(* _forward_modules_json (lines 194-223).  A node is                       *)
(* [function |-> name, inputs |-> <<indices>>]; indices count from 0.      *)
(***************************************************************************)
function_to_str(f) == f.function

\* lines 213-216: the inputs of node f of example i
json_module_inputs(f_str, f, i, module_outputs) ==
  IF f_str = "scene"
    THEN <<Feat(i)>>
    ELSE [k \in DOMAIN f.inputs |-> module_outputs[f.inputs[k] + 1]]

\* variant: the output of the first node is taken as the result
LastOutput_first(module_outputs) == module_outputs[1]

\* line 221: module_outputs[-1]
LastOutput(module_outputs) == module_outputs[Len(module_outputs)]

\* an entry of the log of module calls: example, cursor before and after,
\* the token read there ("" past the end of the row), the operator it was
\* evaluated as, the instance called, its inputs and its output
LogEntry(i, pos, nxt, tok, fn_str, module, module_inputs, output) ==
  [i |-> i, pos |-> pos, next |-> nxt, tok |-> tok, fn_str |-> fn_str,
   module |-> module.id, inputs |-> module_inputs, output |-> output]

\* lines 210-220: the nodes of example i from node j on
RECURSIVE json_nodes(_, _, _, _, _)
json_nodes(self, nodes, i, j, acc) ==
  IF j >= Len(nodes) \/ acc.err # "ok"
    THEN acc
    ELSE
      LET f == nodes[j + 1]
          f_str == function_to_str(f)
          got == RegistryGet(self.function_modules, f_str)
      IN  IF got.err # "ok"
            THEN [acc EXCEPT !.err = got.err]
            ELSE
              LET module == got.module
                  badIndex == \E k \in DOMAIN f.inputs :
                                 f.inputs[k] >= Len(acc.module_outputs)
              IN  IF f_str # "scene" /\ badIndex
                    THEN [acc EXCEPT !.err = "IndexError"]
                    ELSE
                      LET module_inputs ==
                            json_module_inputs(f_str, f, i, acc.module_outputs)
                          r == CallModule(module, module_inputs)
                      IN  IF r.err # "ok"
                            THEN [acc EXCEPT !.err = r.err]
                            ELSE json_nodes(self, nodes, i, j + 1,
                                   [acc EXCEPT
                                      !.module_outputs = Append(@, r.output),
                                      !.calls = Append(@,
                                         LogEntry(i, j, j + 1, f_str, f_str, module,
                                                  module_inputs, r.output)),
                                      !.saved = IF self.save_module_outputs
                                                  THEN Append(@, r.output) ELSE @])

\* lines 205-221: the examples from i on
RECURSIVE json_examples(_, _, _, _, _)
json_examples(self, prog, N, i, st) ==
  IF i >= N \/ st.err # "ok"
    THEN st
    ELSE
      LET acc == json_nodes(self, prog[i + 1], i, 0,
                   [err |-> "ok", module_outputs |-> <<>>, calls |-> st.calls,
                    saved |-> <<>>])
          all1 == IF self.save_module_outputs
                    THEN Append(st.all_module_outputs, acc.saved)
                    ELSE st.all_module_outputs
      IN  IF acc.err # "ok"
            THEN [st EXCEPT !.err = acc.err, !.calls = acc.calls,
                            !.all_module_outputs = all1]
            ELSE IF Len(acc.module_outputs) = 0
              THEN [st EXCEPT !.err = "IndexError", !.all_module_outputs = all1]
              ELSE json_examples(self, prog, N, i + 1,
                     [st EXCEPT
                        !.final_module_outputs =
                           Append(@, LastOutput(acc.module_outputs)),
                        !.calls = acc.calls,
                        !.all_module_outputs = all1])

forward_modules_json(self, N, prog) ==
  json_examples(self, prog, N, 0,
    [err |-> "ok", final_module_outputs |-> <<>>, calls |-> <<>>,
     all_module_outputs |-> <<>>])

(***************************************************************************)
(* _forward_modules_ints_helper (lines 225-279).  prog is the N x L     *)
(* matrix of token ids; i and j count from 0.  acc carries self.used_fns   *)
(* and the log of module calls.  The result is the output, the next        *)
(* cursor and acc.                                                         *)
(***************************************************************************)
\* lines 246-262: the conditioning row and the module of fn_str
Resolve(self, fn_str, num_inputs) ==
  IF self.use_film
    THEN
      LET q1 == IF self.sharing_patterns[2] = 1 THEN ToString(num_inputs) ELSE fn_str
          q2 == IF self.sharing_patterns[1] = 1 THEN ToString(num_inputs) ELSE fn_str
      IN  IF q1 \notin DOMAIN self.fn_str_2_filmId
            THEN [err |-> "AssertionError", midx |-> -1, module |-> NoModule]
            ELSE IF q2 \notin DOMAIN self.function_modules
              THEN [err |-> "AssertionError", midx |-> -1, module |-> NoModule]
              ELSE [err |-> "ok", midx |-> self.fn_str_2_filmId[q1],
                    module |-> self.function_modules[q2]]
    ELSE LET got == RegistryGet(self.function_modules, fn_str)
         IN  [err |-> got.err, midx |-> -1, module |-> got.module]

\* lines 273-278: the names gammas and betas are bound nowhere
Invoke(self, module, midx, module_inputs) ==
  IF self.use_film
    THEN [err |-> "NameError", output |-> NoOutput]
    ELSE CallModule(module, module_inputs)

\* lines 228-229: the id at cursor j of example i is no key of
\* vocab['program_idx_to_token']
NoSuchToken(self, prog, i, j) ==
  j < Len(prog[1]) /\ prog[i + 1][j + 1] \notin 0..(NumTokens(self.vocab) - 1)

\* lines 227-232: the token at cursor j of example i ("" past the end)
ReadToken(self, prog, i, j) ==
  IF j < Len(prog[1])
    THEN program_idx_to_token(self.vocab, prog[i + 1][j + 1])
    ELSE ""

\* variant: a <NULL> that is evaluated is marked as used too
UsedFnJ_marksNull(tok) == tok # ""

\* lines 226-237: used_fn_j for a token that is evaluated
UsedFnJ(tok) == tok # "" /\ tok # "<NULL>"

\* variant: <NULL> is evaluated as the operator red
FnStr_nullIsRed(tok) ==
  IF tok = "" THEN "scene" ELSE IF tok = "<NULL>" THEN "red" ELSE tok

\* lines 230-235: the operator a token is evaluated as
FnStr(tok) == IF tok = "" \/ tok = "<NULL>" THEN "scene" ELSE tok

\* line 240
MarkUsed(acc, i, j) == [acc EXCEPT !.used_fns[i][j] = 1]

\* variant: scene is bound to the first example's feature map
SceneInputs_first(i) == <<Feat(0)>>

\* line 265
SceneInputs(i) == <<Feat(i)>>

RECURSIVE forward_modules_ints_helper(_, _, _, _, _)
RECURSIVE GatherInputs(_, _, _, _, _, _, _)

forward_modules_ints_helper(self, prog, i, j, acc) ==
  LET tok == ReadToken(self, prog, i, j)
      fn_str == FnStr(tok)
      used_fn_j == UsedFnJ(tok)
  IN  IF NoSuchToken(self, prog, i, j)
        THEN [err |-> "KeyError", output |-> NoOutput, j |-> j, acc |-> acc]
      ELSE IF tok = "<START>"
        THEN forward_modules_ints_helper(self, prog, i, j + 1, acc)
        ELSE
          LET acc1 == IF used_fn_j THEN MarkUsed(acc, i, j) ELSE acc
              j1 == j + 1
          IN  IF fn_str \notin DOMAIN self.function_modules_num_inputs
                THEN [err |-> "KeyError", output |-> NoOutput, j |-> j1, acc |-> acc1]
                ELSE
                  LET num_inputs == IF fn_str = "scene" THEN 1
                                    ELSE self.function_modules_num_inputs[fn_str]
                      res == Resolve(self, fn_str, num_inputs)
                  IN  IF res.err # "ok"
                        THEN [err |-> res.err, output |-> NoOutput, j |-> j1, acc |-> acc1]
                        ELSE
                          LET g == IF fn_str = "scene"
                                     THEN [err |-> "ok", module_inputs |-> SceneInputs(i),
                                           j |-> j1, acc |-> acc1]
                                     ELSE GatherInputs(self, prog, i, j1, acc1,
                                                       num_inputs, <<>>)
                          IN  IF g.err # "ok"
                                THEN [err |-> g.err, output |-> NoOutput,
                                      j |-> g.j, acc |-> g.acc]
                                ELSE
                                  LET r == Invoke(self, res.module, res.midx,
                                                  g.module_inputs)
                                  IN  [err |-> r.err, output |-> r.output, j |-> g.j,
                                       acc |-> [g.acc EXCEPT !.calls =
                                                  IF r.err = "ok"
                                                    THEN Append(@,
                                                      LogEntry(i, j, g.j, tok, fn_str,
                                                               res.module,
                                                               g.module_inputs,
                                                               r.output))
                                                    ELSE @]]

\* variant: each sub-expression read is put in front of the earlier ones
GatherInputs_reversed(self, prog, i, j, acc, num_inputs, module_inputs) ==
  IF Len(module_inputs) >= num_inputs
    THEN [err |-> "ok", module_inputs |-> module_inputs, j |-> j, acc |-> acc]
    ELSE
      LET c == forward_modules_ints_helper(self, prog, i, j, acc)
      IN  IF c.err # "ok"
            THEN [err |-> c.err, module_inputs |-> module_inputs, j |-> c.j,
                  acc |-> c.acc]
            ELSE GatherInputs(self, prog, i, c.j, c.acc, num_inputs,
                              <<c.output>> \o module_inputs)

\* lines 269-271: the while loop that reads num_inputs sub-expressions
GatherInputs(self, prog, i, j, acc, num_inputs, module_inputs) ==
  IF Len(module_inputs) >= num_inputs
    THEN [err |-> "ok", module_inputs |-> module_inputs, j |-> j, acc |-> acc]
    ELSE
      LET c == forward_modules_ints_helper(self, prog, i, j, acc)
      IN  IF c.err # "ok"
            THEN [err |-> c.err, module_inputs |-> module_inputs, j |-> c.j,
                  acc |-> c.acc]
            ELSE GatherInputs(self, prog, i, c.j, c.acc, num_inputs,
                              Append(module_inputs, c.output))

(***************************************************************************)
(* _forward_modules_ints (lines 281-295).                                  *)
(***************************************************************************)
RECURSIVE ints_examples(_, _, _, _, _)
ints_examples(self, prog, N, i, st) ==
  IF i >= N \/ st.err # "ok"
    THEN st
    ELSE
      LET c == forward_modules_ints_helper(self, prog, i, 0,
                 [used_fns |-> st.used_fns, calls |-> st.calls])
      IN  ints_examples(self, prog, N, i + 1,
            [st EXCEPT !.err = c.err,
                       !.final_module_outputs =
                          IF c.err = "ok" THEN Append(@, c.output) ELSE @,
                       !.used_fns = c.acc.used_fns,
                       !.calls = c.acc.calls])

ZeroMask(prog) ==
  [i \in 0..(Len(prog) - 1) |-> [j \in 0..(Len(prog[1]) - 1) |-> 0]]

forward_modules_ints(self, N, prog) ==
  ints_examples(self, prog, N, 0,
    [err |-> "ok", final_module_outputs |-> <<>>, calls |-> <<>>,
     used_fns |-> ZeroMask(prog)])

(***************************************************************************)
(* Program trees over the vocabulary, and their three encodings.  A tree   *)
(* is <<operator, <<subtrees>>>>.                                          *)
(***************************************************************************)
Sentinels == {"<NULL>", "<START>", "<END>"}

OpsOfArity(v, n) ==
  {w \in Names(v.program_token_to_idx) \ Sentinels : v.program_token_arity[w] = n}

RECURSIVE TreesOfSize(_, _)
TreesOfSize(v, n) ==
  IF n = 1
    THEN {<<w, <<>>>> : w \in OpsOfArity(v, 0)}
    ELSE {<<w, <<t>>>> : w \in OpsOfArity(v, 1), t \in TreesOfSize(v, n - 1)}
         \cup UNION {{<<w, <<t1, t2>>>> : w \in OpsOfArity(v, 2),
                                         t1 \in TreesOfSize(v, a),
                                         t2 \in TreesOfSize(v, n - 1 - a)}
                     : a \in 1..(n - 2)}

Trees(v, n) == UNION {TreesOfSize(v, k) : k \in 1..n}

RECURSIVE Size(_)
Size(t) ==
  IF Len(t[2]) = 0 THEN 1
  ELSE IF Len(t[2]) = 1 THEN 1 + Size(t[2][1])
  ELSE 1 + Size(t[2][1]) + Size(t[2][2])

\* prefix notation: the operator, then its subtrees left to right
RECURSIVE Prefix(_)
Prefix(t) ==
  IF Len(t[2]) = 0 THEN <<t[1]>>
  ELSE IF Len(t[2]) = 1 THEN <<t[1]>> \o Prefix(t[2][1])
  ELSE <<t[1]>> \o Prefix(t[2][1]) \o Prefix(t[2][2])

\* program_token_to_idx[w]
TokenIdx(v, w) == CHOOSE k \in 0..(NumTokens(v) - 1) : program_idx_to_token(v, k) = w

\* the row of ids of a token list, cut or padded with <NULL> to length L
FitRow(v, ws, L) ==
  [k \in 1..L |-> IF k <= Len(ws) THEN TokenIdx(v, ws[k]) ELSE TokenIdx(v, "<NULL>")]

\* the program written by generate_dataset (line 232): <START> tree <END>
TokenRow(v, t, L) == FitRow(v, <<"<START>">> \o Prefix(t) \o <<"<END>">>, L)

\* explicit form: the nodes in evaluation order, subtrees first
ShiftInputs(nodes, d) ==
  [k \in DOMAIN nodes |->
     [function |-> nodes[k].function,
      inputs |-> [q \in DOMAIN nodes[k].inputs |-> nodes[k].inputs[q] + d]]]

RECURSIVE NodeList(_)
NodeList(t) ==
  IF Len(t[2]) = 0 THEN <<[function |-> t[1], inputs |-> <<>>]>>
  ELSE IF Len(t[2]) = 1
    THEN LET c == NodeList(t[2][1])
         IN  Append(c, [function |-> t[1], inputs |-> <<Len(c) - 1>>])
    ELSE LET c1 == NodeList(t[2][1])
             c2 == NodeList(t[2][2])
         IN  Append(c1 \o ShiftInputs(c2, Len(c1)),
                    [function |-> t[1],
                     inputs |-> <<Len(c1) - 1, Len(c1) + Len(c2) - 1>>])

(***************************************************************************)
(* The programs handed to forward.  A program value is described by its    *)
(* runtime type, its rank, its len() (-1 when it has none), and its        *)
(* content: list (explicit form) or data (token matrix).                   *)
(***************************************************************************)
ListProgram(ty, body) ==
  [type |-> ty, dim |-> 0, len |-> Len(body), list |-> body, data |-> <<>>]

TensorProgram(ty, rank, n, m) ==
  [type |-> ty, dim |-> rank, len |-> n, list |-> <<>>, data |-> m]

\* batches of N examples: the first from S, the others from T
Batches(S, T, N) == {<<s>> \o r : s \in S, r \in [1..(N - 1) -> T]}

TreeBatches(v, N) == Batches(Trees(v, MaxNodes), Trees(v, MaxOtherNodes), N)

\* well-formed token matrices of N rows
TreeMatrices(v, N) ==
  {[e \in 1..N |-> TokenRow(v, b[e], MaxNodes + 2)] : b \in TreeBatches(v, N)}

\* arbitrary token matrices of N rows of L tokens: any first row, of ids of
\* the vocabulary and the first id beyond them, the others the row of scene
AnyMatrices(v, N, L) ==
  Batches([1..L -> 0..NumTokens(v)],
          {FitRow(v, Prefix(t), L) : t \in Trees(v, 1)}, N)

\* the explicit form of the same batches of trees
TreeLists(v, N) == {[e \in 1..N |-> NodeList(b[e])] : b \in TreeBatches(v, N)}

\* arbitrary node lists: any operator name, known or not, and any indices
\* up to the node's own position
Node(j) ==
  {[function |-> w, inputs |-> ins] :
     w \in {"scene", "red", "And", "blue"},
     ins \in {<<>>} \cup {<<a>> : a \in 0..j} \cup {<<a, b>> : a \in 0..j, b \in 0..j}}

RECURSIVE NodeLists(_)
NodeLists(n) ==
  IF n = 0 THEN {<<>>}
  ELSE {Append(l, f) : l \in NodeLists(n - 1), f \in Node(n - 1)}

\* arbitrary batches of N lists: any first list of n nodes, the others the
\* list of scene
AnyLists(v, N, n) == Batches(NodeLists(n), {NodeList(t) : t \in Trees(v, 1)}, N)

\* the other runtime shapes forward can be handed
OtherPrograms(v) ==
  {ListProgram("tuple", <<NodeList(t)>>) : t \in Trees(v, MaxOtherNodes)}
  \cup {TensorProgram("Tensor", 2, 1, <<TokenRow(v, t, MaxNodes + 2)>>)
          : t \in Trees(v, MaxOtherNodes)}
  \cup {TensorProgram(ty, rank, n, <<>>) :
          ty \in {"Variable", "Tensor"}, rank \in {1, 3}, n \in 1..MaxBatch}
  \cup {TensorProgram("other", 0, n, <<>>) : n \in {-1} \cup 1..MaxBatch}

NoCall ==
  [op |-> "none", status |-> "ok", mode |-> "none", final_module_outputs |-> <<>>,
   out |-> <<>>, calls |-> <<>>, args |-> <<>>]

NoProgram == ListProgram("none", <<>>)

(***************************************************************************)
(* __init__ (lines 25-164): the attributes of the object it leaves, and    *)
(* err, the exception it raises ("ok" when it returns).                    *)
(***************************************************************************)
ModuleNetInit(film_on, sp, v) ==
  LET decl == declare_film_coefficients({"use_film", "sharing_patterns", "stem"},
                                        film_on, EmptyDict)
      s == RegistryLoop(film_on, sp, v, LoopStart, 1)
  IN  IF decl.err # "ok"
        THEN [err |-> decl.err, gammas |-> NoTable,
              function_modules |-> EmptyDict,
              function_modules_num_inputs |-> EmptyDict,
              fn_str_2_filmId |-> EmptyDict,
              classifier |-> [weight |-> <<>>, bias |-> <<>>]]
        ELSE [err |-> s.err, gammas |-> decl.table,
              function_modules |-> s.function_modules,
              function_modules_num_inputs |-> s.function_modules_num_inputs,
              fn_str_2_filmId |-> s.fn_str_2_filmId,
              classifier |-> build_classifier(v.num_answers)]

\* generate_dataset has not been called
NoDataset == [pc |-> "idle"]

\* the object after ModuleNet(vocab, ..., use_film, sharing_patterns)
ConstructedOver(V) ==
  /\ use_film \in BOOLEAN
  /\ sharing_patterns \in {<<0, 0>>, <<1, 0>>, <<0, 1>>, <<1, 1>>}
  /\ vocab \in V
  /\ LET self == ModuleNetInit(use_film, sharing_patterns, vocab)
     IN  /\ phase = (IF self.err = "ok" THEN "ready" ELSE self.err)
         /\ function_modules = self.function_modules
         /\ function_modules_num_inputs = self.function_modules_num_inputs
         /\ fn_str_2_filmId = self.fn_str_2_filmId
         /\ gammas = self.gammas
         /\ classifier = self.classifier
  /\ save_module_outputs = FALSE
  /\ all_module_outputs = <<>>
  /\ used_fns = <<>>
  /\ call = NoCall
  /\ flatqa = NoDataset

Constructed == ConstructedOver(Vocabs)

\* the state after construction, with the batch (feats of x rows, program)
\* that forward will be handed; an object whose construction raised is
\* handed none
Init ==
  /\ Constructed
  /\ IF phase # "ready"
       THEN x = 0 /\ program = NoProgram
       ELSE \/ /\ x \in 1..MaxBatch
               /\ \/ \E m \in TreeMatrices(vocab, x) :
                       program = TensorProgram("Variable", 2, x, m)
                  \/ \E L \in 1..MaxLen : \E m \in AnyMatrices(vocab, x, L) :
                       program = TensorProgram("Variable", 2, x, m)
                  \/ \E l \in TreeLists(vocab, x) : program = ListProgram("list", l)
                  \/ \E n \in 0..MaxListLen : \E l \in AnyLists(vocab, x, n) :
                       program = ListProgram("list", l)
            \/ program \in OtherPrograms(vocab) /\ x \in 1..MaxBatch

(***************************************************************************)
(* forward (lines 297-315).                                                *)
(***************************************************************************)
\* self.classifier(final_module_outputs): one score per example and answer row
Classify(c, outs) ==
  [e \in DOMAIN outs |-> [k \in DOMAIN c.weight |-> <<c.weight[k], c.bias[k], outs[e]>>]]

\* lines 303-310: the evaluator chosen for a program value
Dispatch(p) ==
  IF p.type \in {"list", "tuple"} THEN "json"
  ELSE IF p.type = "Variable" /\ p.dim = 2 THEN "ints"
  ELSE IF p.type = "Tensor" /\ p.dim = 3 THEN "probs"
  ELSE "ValueError"

Failed(e, m) ==
  [op |-> "forward", status |-> e, mode |-> m, final_module_outputs |-> <<>>,
   out |-> <<>>, calls |-> <<>>, args |-> <<>>]

Done(st, m) ==
  [op |-> "forward", status |-> st.err, mode |-> m,
   final_module_outputs |-> IF st.err = "ok" THEN st.final_module_outputs ELSE <<>>,
   out |-> IF st.err = "ok" THEN Classify(classifier, st.final_module_outputs) ELSE <<>>,
   calls |-> st.calls, args |-> <<>>]

\* variant: evaluation records the module of the last program in the registry
ForwardFrame_caching ==
  /\ function_modules' = Put(function_modules, "last", NoModule)
  /\ UNCHANGED <<phase, use_film, sharing_patterns, vocab,
                 function_modules_num_inputs, fn_str_2_filmId, gammas, classifier,
                 save_module_outputs, x, program, flatqa>>

\* the attributes that lines 194-315 never assign
ForwardFrame ==
  UNCHANGED <<phase, use_film, sharing_patterns, vocab, function_modules,
              function_modules_num_inputs, fn_str_2_filmId, gammas, classifier,
              save_module_outputs, x, program, flatqa>>

forward ==
  /\ phase = "ready"
  /\ LET N == x
         mode == Dispatch(program)
     IN  IF program.len = -1
           THEN /\ call' = Failed("TypeError", "none")
                /\ UNCHANGED <<all_module_outputs, used_fns>>
         ELSE IF N # program.len
           THEN /\ call' = Failed("AssertionError", "none")
                /\ UNCHANGED <<all_module_outputs, used_fns>>
         ELSE IF mode = "json"
           THEN LET st == forward_modules_json(Self, N, program.list)
                IN  /\ call' = Done(st, mode)
                    /\ all_module_outputs' = st.all_module_outputs
                    /\ UNCHANGED used_fns
         ELSE IF mode = "ints"
           THEN LET st == forward_modules_ints(Self, N, program.data)
                IN  /\ call' = Done(st, mode)
                    /\ used_fns' = st.used_fns
                    /\ UNCHANGED all_module_outputs
         ELSE IF mode = "probs"
           THEN \* self._forward_modules_probs is defined nowhere in the class
                /\ call' = Failed("AttributeError", mode)
                /\ UNCHANGED <<all_module_outputs, used_fns>>
         ELSE /\ call' = Failed("ValueError", "none")
              /\ UNCHANGED <<all_module_outputs, used_fns>>
  /\ ForwardFrame

(***************************************************************************)
(* expand_answer_vocab (lines 177-192).  answer_to_idx is given by the set *)
(* of its values; the rows drawn by normal_() are arbitrary.               *)
(***************************************************************************)
init_b_default == -50

InitBs == {init_b_default, -5}

RandomVals == {100, 101}

\* lines 186-187: new_N
NewN(ids) == 1 + Max(ids)

\* variant: the old biases are not copied into the new vector
Expanded_noBiasCopy(c, new_N, drawn, init_b) ==
  LET old_N == Len(c.weight)
  IN  [weight |-> [k \in 1..new_N |-> IF k <= old_N THEN c.weight[k] ELSE drawn[k]],
       bias   |-> [k \in 1..new_N |-> init_b]]

\* lines 188-192: the grown layer
Expanded(c, new_N, drawn, init_b) ==
  LET old_N == Len(c.weight)
  IN  [weight |-> [k \in 1..new_N |-> IF k <= old_N THEN c.weight[k] ELSE drawn[k]],
       bias   |-> [k \in 1..new_N |-> IF k <= old_N THEN c.bias[k] ELSE init_b]]

ExpandCall(e, ids, init_b) ==
  [op |-> "expand_answer_vocab", status |-> e, mode |-> "none",
   final_module_outputs |-> <<>>, out |-> <<>>, calls |-> <<>>,
   args |-> [ids |-> ids, init_b |-> init_b]]

expand_answer_vocab ==
  /\ phase = "ready"
  /\ \E ids \in SUBSET (0..MaxAnswerId), init_b \in InitBs :
       IF ids = {}
         THEN \* max() of an empty sequence
              /\ call' = ExpandCall("ValueError", ids, init_b)
              /\ UNCHANGED classifier
         ELSE IF NewN(ids) < Len(classifier.weight)
           THEN \* line 189: copy_ of old_N rows into new_N < old_N rows
                /\ call' = ExpandCall("RuntimeError", ids, init_b)
                /\ UNCHANGED classifier
           ELSE \E drawn \in [(Len(classifier.weight) + 1)..NewN(ids) -> RandomVals] :
                  /\ classifier' = Expanded(classifier, NewN(ids), drawn, init_b)
                  /\ call' = ExpandCall("ok", ids, init_b)
  /\ UNCHANGED <<phase, use_film, sharing_patterns, vocab, function_modules,
                 function_modules_num_inputs, fn_str_2_filmId, gammas,
                 save_module_outputs, all_module_outputs, used_fns, x, program,
                 flatqa>>

Next == forward

Spec == Init /\ [][Next]_vars

(***************************************************************************)
(* The classifier under expansion: one model fed the two batches of the    *)
(* concrete scenarios.                                                     *)
(***************************************************************************)
AndRedSquare ==
  <<"And", <<<<"red", <<<<"scene", <<>>>>>>>>, <<"square", <<<<"scene", <<>>>>>>>>>>>>

RedSquareScene == <<"red", <<<<"square", <<<<"scene", <<>>>>>>>>>>>>

InitExpand ==
  /\ Constructed
  /\ IF phase # "ready"
       THEN x = 0 /\ program = NoProgram
       ELSE /\ x = 1
            /\ \/ program = TensorProgram("Variable", 2, 1,
                                          <<TokenRow(vocab, AndRedSquare, MaxNodes + 2)>>)
               \/ program = ListProgram("list", <<NodeList(RedSquareScene)>>)

NextExpand == forward \/ expand_answer_vocab

SpecExpand == InitExpand /\ [][NextExpand]_vars

(***************************************************************************)
(* Sequences of evaluations: one model is handed batch after batch, with   *)
(* output capture switched on and off between the calls.                   *)
(***************************************************************************)
UnknownBlue ==
  <<[function |-> "scene", inputs |-> <<>>], [function |-> "blue", inputs |-> <<0>>]>>

\* the batches handed over: x and the program
Batch ==
  {<<1, TensorProgram("Variable", 2, 1, <<TokenRow(FlatQAVocab, AndRedSquare, MaxNodes + 2)>>)>>,
   <<2, TensorProgram("Variable", 2, 2,
                      <<FitRow(FlatQAVocab, <<"red", "<NULL>">>, 2),
                        FitRow(FlatQAVocab, <<"scene">>, 2)>>)>>,
   <<2, ListProgram("list", <<NodeList(RedSquareScene), NodeList(AndRedSquare)>>)>>,
   <<2, ListProgram("list", <<NodeList(RedSquareScene), UnknownBlue>>)>>,
   <<1, TensorProgram("Tensor", 3, 1, <<>>)>>}

InitCapture ==
  /\ Constructed
  /\ IF phase # "ready"
       THEN x = 0 /\ program = NoProgram
       ELSE \E b \in Batch : x = b[1] /\ program = b[2]

\* the caller hands forward another batch (the arguments of line 297)
NextBatch ==
  /\ phase = "ready"
  /\ \E b \in Batch : b # <<x, program>> /\ x' = b[1] /\ program' = b[2]
  /\ UNCHANGED <<phase, use_film, sharing_patterns, vocab, function_modules,
                 function_modules_num_inputs, fn_str_2_filmId, gammas, classifier,
                 save_module_outputs, all_module_outputs, used_fns, call, flatqa>>

\* the caller assigns the attribute save_module_outputs (line 164), which
\* lines 206 and 218 read
set_save_module_outputs ==
  /\ phase = "ready"
  /\ save_module_outputs' = ~save_module_outputs
  /\ UNCHANGED <<phase, use_film, sharing_patterns, vocab, function_modules,
                 function_modules_num_inputs, fn_str_2_filmId, gammas, classifier,
                 all_module_outputs, used_fns, x, program, call, flatqa>>

NextCapture == forward \/ NextBatch \/ set_save_module_outputs

SpecCapture == InitCapture /\ [][NextCapture]_vars

(***************************************************************************)
(* Construction over vocabularies that declare an operator of arity 3:     *)
(* the vocabulary file is read as it is, whatever arities it declares.     *)
(***************************************************************************)
TernaryWord == "between"

TernaryArity(w) == IF w = TernaryWord THEN 3 ELSE arity(w)

\* the ternary operator declared last, and declared first
TernaryLastVocab ==
  LET ws == Append(program_words, TernaryWord)
  IN  MakeVocab(ws, [w \in Names(ws) |-> TernaryArity(w)])

TernaryFirstVocab ==
  LET ws == <<TernaryWord>> \o program_words
  IN  MakeVocab(ws, [w \in Names(ws) |-> TernaryArity(w)])

ArityVocabs == Vocabs \cup {TernaryLastVocab, TernaryFirstVocab}

InitArity ==
  /\ ConstructedOver(ArityVocabs)
  /\ IF phase # "ready"
       THEN x = 0 /\ program = NoProgram
       ELSE /\ x \in 1..MaxBatch
            /\ \/ \E L \in 1..MaxLen : \E m \in AnyMatrices(vocab, x, L) :
                    program = TensorProgram("Variable", 2, x, m)
               \/ \E n \in 0..MaxListLen : \E l \in AnyLists(vocab, x, n) :
                    program = ListProgram("list", l)

SpecArity == InitArity /\ [][Next]_vars

(***************************************************************************)
(* generate_dataset (generate_flatqa.py, lines 169-241).  A scene is the   *)
(* set of (shape, color) pairs of its objects; every random draw is a      *)
(* nondeterministic choice.  Two of the shapes and two of the colors are   *)
(* kept.                                                                   *)
(***************************************************************************)
SHAPES == {"square", "triangle"}

COLORS == {"red", "blue"}

Pairs == SHAPES \X COLORS

\* lines 330-332: ExcludeRedSquare.allow
allow(obj) == obj = <<"square", "red">>

\* the object_allowed argument: the lambda of line 266 (split "none"), or an
\* ExcludeRedSquare(inverse, restrict_scene) (lines 278-284)
object_allowed(r, obj, purpose) ==
  IF r.split = "none" THEN TRUE
  ELSE IF ~r.restrict_scene /\ purpose = "generate" THEN TRUE
  ELSE IF r.inverse THEN allow(obj)
  ELSE ~allow(obj)

\* lines 333-335: the restrictions main() builds
Restrictions ==
  {[split |-> "none", inverse |-> FALSE, restrict_scene |-> TRUE],
   [split |-> "leave1out", inverse |-> FALSE, restrict_scene |-> TRUE],
   [split |-> "leave1out", inverse |-> FALSE, restrict_scene |-> FALSE],
   [split |-> "leave1out", inverse |-> TRUE, restrict_scene |-> FALSE]}

\* lines 125-131: the scenes the generator can yield
Scenes(r) ==
  {sc \in SUBSET Pairs :
     /\ sc # {}
     /\ Cardinality(sc) <= MaxObjects
     /\ \A obj \in sc : object_allowed(r, obj, "generate")}

\* line 219: range(11); line 228: attempt == 10
Attempts == 11

LastAttempt == 10

NoExample == [idx |-> -1]

\* lines 234-239: the rows written at index i
Example(i, answer, shape, color, scene) ==
  [idx |-> i, answer |-> answer, shape |-> shape, color |-> color, scene |-> scene]

\* lines 210-211
candidate_objects(r, scene) == {obj \in scene : object_allowed(r, obj, "ask")}

\* variant: the sampled pair is never looked up in the scene
Found_never(shape, color, scene) == FALSE

\* lines 224-225
Found(shape, color, scene) == <<shape, color>> \in scene

\* the model object is not part of a run of the generator
NoModel ==
  /\ phase = "none"
  /\ use_film = FALSE
  /\ sharing_patterns = <<0, 0>>
  /\ vocab = FlatQAVocab
  /\ function_modules = EmptyDict
  /\ function_modules_num_inputs = EmptyDict
  /\ fn_str_2_filmId = EmptyDict
  /\ gammas = NoTable
  /\ classifier = [weight |-> <<>>, bias |-> <<>>]
  /\ save_module_outputs = FALSE
  /\ all_module_outputs = <<>>
  /\ used_fns = <<>>
  /\ x = 0
  /\ program = NoProgram
  /\ call = NoCall

ModelVars ==
  <<phase, use_film, sharing_patterns, vocab, function_modules,
    function_modules_num_inputs, fn_str_2_filmId, gammas, classifier,
    save_module_outputs, all_module_outputs, used_fns, x, program, call>>

\* lines 169-203: the run at the top of the loop, i = 0
InitFlatQA ==
  /\ NoModel
  /\ \E r \in Restrictions, n \in 1..MaxExamples :
       flatqa = [pc |-> "loop", object_allowed |-> r, num_examples |-> n, i |-> 0,
                 scene |-> {}, attempt |-> 0, outcome |-> "none",
                 written |-> NoExample]

\* lines 231-241: write the example and advance i
Write(q, answer, shape, color, scene) ==
  [q EXCEPT !.pc = "loop", !.scene = scene, !.attempt = 0,
            !.outcome = "written",
            !.written = Example(q.i, answer, shape, color, scene),
            !.i = q.i + 1]

\* the continue of lines 214 and 229
Skip(q, scene) ==
  [q EXCEPT !.pc = "loop", !.scene = scene, !.attempt = 0, !.outcome = "skipped"]

\* lines 205-206
Finish ==
  /\ flatqa.pc = "loop"
  /\ flatqa.i = flatqa.num_examples
  /\ flatqa' = [flatqa EXCEPT !.pc = "done", !.outcome = "none"]
  /\ UNCHANGED ModelVars

\* lines 204-215 and 231-241: an iteration with answer 1
AskPresent ==
  /\ flatqa.pc = "loop"
  /\ flatqa.i # flatqa.num_examples
  /\ flatqa.i % 2 = 1
  /\ \E scene \in Scenes(flatqa.object_allowed) :
       LET cands == candidate_objects(flatqa.object_allowed, scene)
       IN  IF cands = {}
             THEN flatqa' = Skip(flatqa, scene)
             ELSE \E obj \in cands :
                    flatqa' = Write(flatqa, 1, obj[1], obj[2], scene)
  /\ UNCHANGED ModelVars

\* lines 204-208 and 216-219: an iteration with answer 0 enters the
\* sampling loop
BeginAbsent ==
  /\ flatqa.pc = "loop"
  /\ flatqa.i # flatqa.num_examples
  /\ flatqa.i % 2 = 0
  /\ \E scene \in Scenes(flatqa.object_allowed) :
       flatqa' = [flatqa EXCEPT !.pc = "sampling", !.scene = scene, !.attempt = 0,
                                !.outcome = "none"]
  /\ UNCHANGED ModelVars

\* lines 219-241: one pass of the sampling loop, and what follows the loop
\* when this pass ends it
SampleAbsent ==
  /\ flatqa.pc = "sampling"
  /\ \E shape \in SHAPES, color \in COLORS :
       LET allowed == object_allowed(flatqa.object_allowed, <<shape, color>>, "ask")
           found == Found(shape, color, flatqa.scene)
           break == allowed /\ ~found
       IN  IF ~break /\ flatqa.attempt < Attempts - 1
             THEN flatqa' = [flatqa EXCEPT !.attempt = flatqa.attempt + 1]
             ELSE IF flatqa.attempt = LastAttempt
               THEN flatqa' = Skip(flatqa, flatqa.scene)
               ELSE flatqa' = Write(flatqa, 0, shape, color, flatqa.scene)
  /\ UNCHANGED ModelVars

NextFlatQA == Finish \/ AskPresent \/ BeginAbsent \/ SampleAbsent

SpecFlatQA == InitFlatQA /\ [][NextFlatQA]_vars

(***************************************************************************)
(* Properties.                                                             *)
(***************************************************************************)
ForwardDone(m) == call.op = "forward" /\ call.mode = m /\ call.status = "ok"

\* the logged module calls of example i, in call order
CallsOf(i) == SelectSeq(call.calls, LAMBDA c : c.i = i)

Count(sq, P(_)) == Len(SelectSeq(sq, P))

\* number of 1s in row i of used_fns
Ones(i) == Cardinality({j \in DOMAIN used_fns[i] : used_fns[i][j] = 1})

\* a leaf that no operator token stands for: <NULL>, or a read past the end
Implicit(c) == c.tok \in {"", "<NULL>"}

\* the value of tree t on example i under the registry
RECURSIVE Value(_, _)
Value(t, i) ==
  <<function_modules[t[1]].id, -1,
    IF Len(t[2]) = 0 THEN <<Feat(i)>>
    ELSE IF Len(t[2]) = 1 THEN <<Value(t[2][1], i)>>
    ELSE <<Value(t[2][1], i), Value(t[2][2], i)>>>>

\* the program trees of up to MaxNodes nodes, by prefix form
ProgramTrees == Trees(FlatQAVocab, MaxNodes)

TreeOf ==
  [p \in {Prefix(t) : t \in ProgramTrees} |-> CHOOSE t \in ProgramTrees : Prefix(t) = p]

Prefixes == DOMAIN TreeOf

NoTree == <<>>

\* the tokens of row i of the token matrix
RowNames(i) ==
  [k \in DOMAIN program.data[i + 1] |->
     IF program.data[i + 1][k] < NumTokens(vocab)
       THEN program_idx_to_token(vocab, program.data[i + 1][k])
       ELSE "?"]

\* the tree whose prefix form is the n tokens of row from cursor j (counted
\* from 0), NoTree when those tokens are the prefix form of no tree
StandsAt(row, j, n) ==
  IF j + n <= Len(row) /\ SubSeq(row, j + 1, j + n) \in Prefixes
    THEN TreeOf[SubSeq(row, j + 1, j + n)]
    ELSE NoTree

\* the tree t for which row is <START>, the n tokens of the prefix form of
\* t, <END>, then <NULL> padding; NoTree when row is not of that form
Wraps(row, n) ==
  IF /\ Len(row) >= n + 2
     /\ row[1] = "<START>"
     /\ row[n + 2] = "<END>"
     /\ \A k \in (n + 3)..Len(row) : row[k] = "<NULL>"
    THEN StandsAt(row, 1, n)
    ELSE NoTree

\* C1 as stated: after token-sequence evaluation, row i of used_fns is 1
\* exactly at the positions where the recursive consumption evaluated a
\* node, and the number of 1s is the number of nodes evaluated (the nodes
\* of the equivalent explicit-form program).
C1_MaskIsEveryNode ==
  ForwardDone("ints") =>
    \A i \in 0..(x - 1) :
      /\ \A j \in DOMAIN used_fns[i] :
           used_fns[i][j] = 1 <=> \E k \in DOMAIN call.calls :
                                     call.calls[k].i = i /\ call.calls[k].pos = j
      /\ Ones(i) = Len(CallsOf(i))

\* C1 amended: row i of used_fns is 1 exactly at the positions where an
\* operator token other than <NULL> was evaluated, and 0 elsewhere (the
\* skipped <START>, <NULL>, unread padding); the number of 1s is the number
\* of nodes evaluated minus the leaves supplied by <NULL> or by a read past
\* the end of the row, and for a row <START> tree <END> padding it is the
\* number of nodes of the tree's explicit-form program.
C1_UsedMask ==
  ForwardDone("ints") =>
    \A i \in 0..(x - 1) :
      /\ \A j \in DOMAIN used_fns[i] :
           used_fns[i][j] = 1 <=> \E k \in DOMAIN call.calls :
                                     /\ call.calls[k].i = i
                                     /\ call.calls[k].pos = j
                                     /\ ~Implicit(call.calls[k])
      /\ Ones(i) = Len(CallsOf(i)) - Count(CallsOf(i), Implicit)
      /\ \A n \in 1..MaxNodes :
           LET t == Wraps(RowNames(i), n)
           IN  t # NoTree => Ones(i) = Len(NodeList(t))

\* a two-example batch whose first row reads a <NULL> as a leaf under two
\* marked operators, and whose second row is scene and padding
C1_Witness ==
  /\ ForwardDone("ints")
  /\ x = 2
  /\ Ones(0) = 2
  /\ Ones(1) = 1
  /\ \E k \in DOMAIN call.calls :
       call.calls[k].i = 0 /\ call.calls[k].tok = "<NULL>"

\* the program of a batch b of trees in explicit form and as a token matrix
AsLists(b) == [e \in DOMAIN b |-> NodeList(b[e])]

AsMatrix(b) == [e \in DOMAIN b |-> TokenRow(vocab, b[e], MaxNodes + 2)]

Values(b) == [e \in DOMAIN b |-> Value(b[e], e - 1)]

\* the explicit form and the token form of one batch of trees evaluate to
\* the values of the trees
ListAndTokenFormsAgree ==
  (call.op = "forward" /\ x = program.len) =>
    \A b \in TreeBatches(vocab, x) :
      (\/ program.type = "list" /\ program.list = AsLists(b)
       \/ program.type = "Variable" /\ program.dim = 2 /\ program.data = AsMatrix(b))
        => call.status = "ok" /\ call.final_module_outputs = Values(b)

\* C2: every representation of a batch of trees (explicit node lists, prefix
\* token matrix, soft rank-3 tensor) yields an output, the same for all of
\* them, under one registry and one sharing policy.
C2_AllFormsAgree ==
  /\ ListAndTokenFormsAgree
  /\ (call.op = "forward" /\ x = program.len /\ program.type = "Tensor"
      /\ program.dim = 3) => call.status = "ok"

\* C3: a helper call made at cursor j where the prefix form of a tree t
\* stands returns the value of t (each operator applied to its next arity
\* sub-expressions, left to right) and the cursor j + Size(t); in a row
\* <START> t <END> the <START> is skipped, the result is the value of t and
\* <END> is never evaluated.
C3_PrefixEvaluation ==
  ForwardDone("ints") =>
    /\ \A k \in DOMAIN call.calls : \A n \in 1..MaxNodes :
         LET c == call.calls[k]
             t == StandsAt(RowNames(c.i), c.pos, n)
         IN  t # NoTree => c.output = Value(t, c.i) /\ c.next = c.pos + n
    /\ \A i \in 0..(x - 1) : \A n \in 1..MaxNodes :
         LET t == Wraps(RowNames(i), n)
         IN  t # NoTree
               => /\ call.final_module_outputs[i + 1] = Value(t, i)
                  /\ \E k \in DOMAIN call.calls :
                       /\ call.calls[k].i = i /\ call.calls[k].pos = 1
                       /\ call.calls[k].next = 1 + n
                  /\ \A k \in DOMAIN call.calls :
                       call.calls[k].i = i => call.calls[k].tok # "<END>"
                  /\ used_fns[i][0] = 0 /\ used_fns[i][n + 1] = 0

\* the row <START> And red scene square scene <END> has been evaluated
C3_Witness ==
  /\ ForwardDone("ints")
  /\ Len(RowNames(0)) >= 7
  /\ SubSeq(RowNames(0), 1, 7) =
       <<"<START>", "And", "red", "scene", "square", "scene", "<END>">>
  /\ call.final_module_outputs[1] = Value(AndRedSquare, 0)

\* C4: explicit-form evaluation calls, for each example, the modules of its
\* node list in list order, every node other than scene on the outputs
\* computed earlier at the indices in its inputs; the result of the example
\* is the output of the last node.  [scene, square [0], red [1]] runs scene,
\* square, red and yields red(square(scene(features))).
C4_ListOrder ==
  ForwardDone("json") =>
    \A i \in 0..(x - 1) :
      LET nodes == program.list[i + 1]
          cs == CallsOf(i)
      IN  /\ Len(cs) = Len(nodes)
          /\ \A k \in DOMAIN nodes :
               /\ cs[k].fn_str = nodes[k].function
               /\ cs[k].module = function_modules[nodes[k].function].id
               /\ nodes[k].function # "scene" =>
                    cs[k].inputs = [q \in DOMAIN nodes[k].inputs |->
                                      cs[nodes[k].inputs[q] + 1].output]
               /\ cs[k].output = <<cs[k].module, -1, cs[k].inputs>>
          /\ call.final_module_outputs[i + 1] = cs[Len(cs)].output
          /\ nodes = <<[function |-> "scene", inputs |-> <<>>],
                       [function |-> "square", inputs |-> <<0>>],
                       [function |-> "red", inputs |-> <<1>>]>>
               => /\ [k \in DOMAIN cs |-> cs[k].fn_str] = <<"scene", "square", "red">>
                  /\ call.final_module_outputs[i + 1] = Value(RedSquareScene, i)

\* the list [scene, square [0], red [1]] has been evaluated as the second
\* example of a batch
C4_Witness ==
  /\ ForwardDone("json")
  /\ x = 2
  /\ program.list[1] = NodeList(RedSquareScene)
  /\ Len(program.list[2]) >= 2
  /\ call.final_module_outputs[1] = Value(RedSquareScene, 0)

\* C5: in explicit-form and token-sequence evaluation, every call of the
\* scene module made for example i has the single input feats[i].
C5_SceneGetsOwnFeatures ==
  (call.op = "forward" /\ call.mode \in {"json", "ints"}) =>
    \A k \in DOMAIN call.calls :
      call.calls[k].fn_str = "scene" =>
        call.calls[k].inputs = <<Feat(call.calls[k].i)>>

\* scene has been called for the second example of a token batch, once for
\* a scene token and once for a <NULL> read as a leaf
C5_Witness ==
  /\ ForwardDone("ints")
  /\ x = 2
  /\ \E k \in DOMAIN call.calls :
       /\ call.calls[k].i = 1 /\ call.calls[k].tok = "scene"
       /\ call.calls[k].inputs = <<Feat(1)>>
  /\ \E k \in DOMAIN call.calls :
       /\ call.calls[k].i = 0 /\ call.calls[k].tok = "<NULL>"
       /\ call.calls[k].inputs = <<Feat(0)>>

\* a program value is a token matrix (a rank-2 Variable, as the data
\* loader hands it over) or a soft program (a rank-3 Tensor)
IsTensor(p, rank) ==
  p.dim = rank /\ p.type = (IF rank = 2 THEN "Variable" ELSE "Tensor")

\* C6: forward, handed a program with one entry per example, picks the
\* evaluator from the runtime shape: list or tuple -> explicit form, rank-2
\* tensor -> token sequence, rank-3 tensor -> the probabilistic path, which
\* evaluates it; anything else fails with the unsupported-format error
\* (ValueError) and no output.
C6_Dispatch ==
  (call.op = "forward" /\ x = program.len) =>
    /\ program.type \in {"list", "tuple"} => call.mode = "json"
    /\ IsTensor(program, 2) => call.mode = "ints"
    /\ IsTensor(program, 3) => call.mode = "probs" /\ call.status # "AttributeError"
    /\ (program.type \notin {"list", "tuple"} /\ ~IsTensor(program, 2)
        /\ ~IsTensor(program, 3)) => call.status = "ValueError" /\ call.out = <<>>

\* the operator names of the vocabulary and their arity class
Operators == Names(vocab.program_token_to_idx)

ArityClass(f) ==
  IF f = "scene" \/ vocab.program_token_arity[f] = 0 THEN 1
  ELSE vocab.program_token_arity[f]

\* the module instance operator f resolves to in explicit-form evaluation
\* (line 212) and in token-sequence evaluation (lines 243-262)
JsonModule(f) ==
  IF f \in DOMAIN function_modules THEN function_modules[f] ELSE NoModule

IntsModule(f) == Resolve(Self, f, ArityClass(f)).module

\* C7: with module-weight sharing enabled, after construction two distinct
\* operators of one arity class resolve to the same module instance in
\* every evaluation mode.
C7_SharedInstance ==
  (phase = "ready" /\ sharing_patterns[1] = 1) =>
    \A f \in Operators : \A g \in Operators :
      (f # g /\ ArityClass(f) = ArityClass(g)) =>
        /\ JsonModule(f) = JsonModule(g) /\ JsonModule(f) # NoModule
        /\ IntsModule(f) = IntsModule(g) /\ IntsModule(f) # NoModule

\* the conditioning ids recorded by the constructor
FilmIds == {fn_str_2_filmId[k] : k \in DOMAIN fn_str_2_filmId}

\* C8: construction with conditioning assigns ids: with conditioning
\* sharing at most 2 distinct ids, one for the unary and one for the binary
\* class; without it every operator name gets the id equal to its rank in
\* vocabulary order.
C8_FilmIds ==
  use_film =>
    IF sharing_patterns[2] = 1
      THEN /\ Cardinality(FilmIds) <= 2
           /\ \A f \in Operators : ToString(ArityClass(f)) \in DOMAIN fn_str_2_filmId
      ELSE \A k \in DOMAIN vocab.program_token_to_idx :
             /\ vocab.program_token_to_idx[k] \in DOMAIN fn_str_2_filmId
             /\ fn_str_2_filmId[vocab.program_token_to_idx[k]] = k - 1

\* C9: after construction with conditioning the table has one row per
\* distinct recorded id, and every recorded id is a row index.
C9_TableRows ==
  use_film =>
    /\ ~gammas.isNone
    /\ gammas.rows = Cardinality(FilmIds)
    /\ \A i \in FilmIds : 0 <= i /\ i < gammas.rows

\* what C10 asserts of a call that maps to the ids in call.args.ids
Preserved(old, new, init_b) ==
  /\ \A k \in DOMAIN old.weight :
       /\ k \in DOMAIN new.weight
       /\ new.weight[k] = old.weight[k]
       /\ new.bias[k] = old.bias[k]
  /\ \A k \in DOMAIN new.weight :
       k > Len(old.weight) => new.bias[k] = init_b

ExpandStep == call'.op = "expand_answer_vocab" /\ call'.args.ids # {}

\* C10 as stated: after expand_answer_vocab with any answer mapping the
\* final layer has 1 + max(ids) rows, the old rows keep weight and bias,
\* and the new rows have bias init_b.
C10_AnyMapping ==
  [][ExpandStep =>
       /\ Len(classifier'.weight) = NewN(call'.args.ids)
       /\ Preserved(classifier, classifier', call'.args.init_b)]_vars

\* C10 amended: that holds for every mapping whose largest id is at least
\* the old row count minus one; for a mapping whose largest id is smaller
\* the call fails and leaves the layer as it was.
C10_GrowingMapping ==
  [][ExpandStep =>
       IF NewN(call'.args.ids) >= Len(classifier.weight)
         THEN /\ call'.status = "ok"
              /\ Len(classifier'.weight) = NewN(call'.args.ids)
              /\ Preserved(classifier, classifier', call'.args.init_b)
         ELSE /\ call'.status # "ok"
              /\ classifier' = classifier]_vars

\* the layer has been grown twice, last with the default bias, and also
\* handed a mapping with no new id
C10_Witness ==
  /\ call.op = "expand_answer_vocab"
  /\ call.status = "ok"
  /\ call.args.init_b = init_b_default
  /\ Len(classifier.weight) = 4
  /\ classifier.bias = <<1, 2, -5, init_b_default>>

\* C11: construction over a vocabulary in which an entry other than scene
\* declares an arity outside {0, 1, 2} fails with ConfigurationError, and
\* no module is registered for that entry.
C11_ConfigurationError ==
  \A f \in Names(vocab.program_token_to_idx) :
    (f # "scene" /\ vocab.program_token_arity[f] \notin {0, 1, 2}) =>
      /\ phase = "ConfigurationError"
      /\ f \notin DOMAIN function_modules

\* node j of example i names an operator that has no registry entry
UnknownNode(i, j) == program.list[i + 1][j + 1].function \notin DOMAIN function_modules

\* explicit-form evaluation got as far as node j of example i: every earlier
\* example and every earlier node of example i was evaluated
ReachedNode(i, j) ==
  /\ \A e \in 0..(i - 1) :
       Len(program.list[e + 1]) > 0 /\ Len(CallsOf(e)) = Len(program.list[e + 1])
  /\ Len(CallsOf(i)) = j

\* the id at cursor j of row i is the id of no token
UnknownToken(i, j) == program.data[i + 1][j + 1] \notin 0..(NumTokens(vocab) - 1)

\* token-sequence evaluation reads cursor j of row i: no earlier row holds
\* an unknown id, and no token before j in row i is a leaf or unknown
ReachedToken(i, j) ==
  /\ \A e \in 0..(i - 1) : \A k \in 0..(Len(program.data[e + 1]) - 1) : ~UnknownToken(e, k)
  /\ \A k \in 0..(j - 1) : RowNames(i)[k + 1] \notin {"scene", "<NULL>", "?"}

Positions(rows) ==
  {<<i, j>> : i \in 0..(Len(rows) - 1), j \in 0..(MaxLen + MaxNodes + 2)}

Nodes == {p \in Positions(program.list) : p[2] < Len(program.list[p[1] + 1])}

Tokens == {p \in Positions(program.data) : p[2] < Len(program.data[p[1] + 1])}

\* C12: in explicit-form and token-sequence evaluation a program that
\* references an operator without registry entry makes the whole batch fail
\* with the registry's lookup error (KeyError): no call is made for the
\* operator or for anything after it, and no output is returned.
C12_UnknownOperator ==
  (call.op = "forward" /\ x = program.len) =>
    /\ call.mode = "json" =>
         /\ \A p \in Nodes :
              UnknownNode(p[1], p[2]) =>
                /\ call.status # "ok"
                /\ call.out = <<>> /\ call.final_module_outputs = <<>>
                /\ ReachedNode(p[1], p[2]) => call.status = "KeyError"
                /\ \A k \in DOMAIN call.calls :
                     \/ call.calls[k].i < p[1]
                     \/ call.calls[k].i = p[1] /\ call.calls[k].pos < p[2]
         /\ call.status = "KeyError" =>
              \E p \in Nodes : UnknownNode(p[1], p[2]) /\ ReachedNode(p[1], p[2])
    /\ call.mode = "ints" =>
         /\ \A p \in Tokens :
              (UnknownToken(p[1], p[2]) /\ ReachedToken(p[1], p[2])) =>
                /\ call.status = "KeyError"
                /\ call.out = <<>> /\ call.final_module_outputs = <<>>
                /\ used_fns[p[1]][p[2]] = 0
                /\ \A k \in DOMAIN call.calls :
                     \/ call.calls[k].i < p[1]
                     \/ call.calls[k].i = p[1] /\ call.calls[k].next <= p[2]
         /\ call.status = "KeyError" =>
              /\ call.out = <<>>
              /\ \E p \in Tokens : UnknownToken(p[1], p[2])

\* the batch [scene, blue [0]], [scene] has failed at blue, after scene was
\* evaluated for the first example
C12_Witness ==
  /\ call.op = "forward" /\ call.mode = "json" /\ call.status = "KeyError"
  /\ x = 2
  /\ program.list[1] = <<[function |-> "scene", inputs |-> <<>>],
                         [function |-> "blue", inputs |-> <<0>>]>>
  /\ Len(call.calls) = 1
  /\ call.out = <<>>

\* node j of example i has a number of inputs other than the declared arity
\* of its operator
WrongInputCount(i, j) ==
  LET f == program.list[i + 1][j + 1]
  IN  /\ f.function \in DOMAIN vocab.program_token_arity
      /\ Len(f.inputs) # vocab.program_token_arity[f.function]

\* a sub-expression of the operator call c was read from <NULL> padding or
\* from past the end of the row
ShortOfInputs(c) ==
  \E k \in DOMAIN call.calls :
    /\ call.calls[k].i = c.i
    /\ Implicit(call.calls[k])
    /\ c.pos < call.calls[k].pos /\ call.calls[k].pos < c.next

\* C13: evaluation fails whenever the program gives an operator a number of
\* inputs other than its declared arity: a node whose inputs list has
\* another length (explicit form), an operator whose sub-expressions run
\* into padding or the end of the row (token form).
C13_ArityMismatch ==
  (call.op = "forward" /\ x = program.len) =>
    /\ call.mode = "json" =>
         \A p \in Nodes : WrongInputCount(p[1], p[2]) => call.status # "ok"
    /\ call.mode = "ints" =>
         \A k \in DOMAIN call.calls : ShortOfInputs(call.calls[k]) => call.status # "ok"

\* C14: with conditioning enabled there is a constructed model to evaluate
\* token sequences with, every operator it consumes is called with one row
\* of the conditioning table, and the only failure of the lookup is
\* LookupError.
C14_FilmLookup ==
  use_film =>
    /\ phase = "ready"
    /\ ForwardDone("ints") =>
         \A k \in DOMAIN call.calls :
           ~gammas.isNone /\ call.calls[k].output[2] \in 0..(gammas.rows - 1)
    /\ (call.op = "forward" /\ call.mode = "ints" /\ call.status # "ok") =>
         call.status = "LookupError"

\* the registry and the conditioning state are those the constructor left
AsConstructed ==
  LET self == ModuleNetInit(use_film, sharing_patterns, vocab)
  IN  /\ function_modules = self.function_modules
      /\ function_modules_num_inputs = self.function_modules_num_inputs
      /\ fn_str_2_filmId = self.fn_str_2_filmId
      /\ gammas = self.gammas

\* a step that is neither a new batch nor an assignment of
\* save_module_outputs: an evaluation
EvaluationStep == UNCHANGED <<x, program, save_module_outputs>>

\* C15: an evaluation, in any mode and with capture on or off, leaves
\* function_modules, function_modules_num_inputs, fn_str_2_filmId and the
\* conditioning table as they were, so that after any sequence of
\* evaluations they are as the constructor left them; of the object's
\* attributes it assigns only used_fns (token form) and all_module_outputs
\* (explicit form).
C15_EvaluationFrame ==
  /\ []AsConstructed
  /\ [][EvaluationStep =>
          /\ UNCHANGED <<function_modules, function_modules_num_inputs,
                         fn_str_2_filmId, gammas>>
          /\ UNCHANGED <<phase, use_film, sharing_patterns, vocab, classifier>>
          /\ call'.mode # "ints" => UNCHANGED used_fns
          /\ call'.mode # "json" => UNCHANGED all_module_outputs]_vars

\* an explicit-form batch has been evaluated with capture on, after a token
\* matrix had been evaluated, and after a batch had failed
C15_Witness ==
  /\ ForwardDone("json")
  /\ save_module_outputs
  /\ Len(all_module_outputs) = 2
  /\ Len(all_module_outputs[2]) = 5
  /\ used_fns # <<>>
  /\ AsConstructed

\* the example last written is consistent with its answer
Consistent(w, r) ==
  /\ w.answer = w.idx % 2
  /\ object_allowed(r, <<w.shape, w.color>>, "ask")
  /\ w.answer = 1 => <<w.shape, w.color>> \in w.scene
  /\ w.answer = 0 => <<w.shape, w.color>> \notin w.scene

\* no question with answer i mod 2 can be asked about the scene
NoQuestion(r, i, scene) ==
  \A obj \in Pairs :
    object_allowed(r, obj, "ask") => (i % 2 = 1 <=> obj \notin scene)

\* the example last written is consistent and stands at index i - 1
WrittenConsistent ==
  (flatqa.pc # "idle" /\ flatqa.written # NoExample) =>
    /\ Consistent(flatqa.written, flatqa.object_allowed)
    /\ flatqa.written.idx = flatqa.i - 1

\* what an iteration of the loop does to i and to the rows written
IterationOutcome ==
  /\ (flatqa'.outcome = "skipped") =>
       (flatqa'.i = flatqa.i /\ flatqa'.written = flatqa.written)
  /\ (flatqa'.outcome = "written") =>
       (flatqa'.i = flatqa.i + 1 /\ flatqa'.written.idx = flatqa.i)
  /\ (/\ flatqa'.pc = "loop"
      /\ flatqa.pc # "done"
      /\ NoQuestion(flatqa.object_allowed, flatqa.i, flatqa'.scene)) =>
       (flatqa'.outcome = "skipped")

\* C16: every example written by generate_dataset has answer i mod 2 and
\* asks a pair that is allowed for 'ask', present in the scene when the
\* answer is 1 and absent from it when the answer is 0; an iteration that
\* skips its scene writes nothing and leaves i, and an iteration whose scene
\* admits no such question skips.
C16_ExamplesConsistent == []WrittenConsistent /\ [][IterationOutcome]_vars

\* under the test restriction of leave1out, which allows questions about
\* the red square only, a question with answer 0 and then one with answer 1
\* have been written
C16_Witness ==
  /\ flatqa.pc = "loop"
  /\ flatqa.object_allowed.inverse
  /\ flatqa.i = 2
  /\ flatqa.written = Example(1, 1, "square", "red",
                              {<<"square", "red">>, <<"triangle", "blue">>})

\* every id of the token matrix is the id of a token of the vocabulary
OverVocabulary == \A p \in Tokens : ~UnknownToken(p[1], p[2])

\* the length L of the rows of the token matrix
RowLen == Len(program.data[1])

\* C17: token-sequence evaluation of a token matrix over the vocabulary
\* runs to completion: every helper call returns a cursor greater than the
\* one it was called with, a <NULL> and a cursor at or past L are evaluated
\* as a scene leaf that reads nothing further, and an example of L tokens
\* takes at most 2L + 1 module calls and ends with a cursor of at most
\* 2L + 1.
C17_Terminates ==
  (call.op = "forward" /\ call.mode = "ints" /\ OverVocabulary) =>
    /\ call.status = "ok"
    /\ \A k \in DOMAIN call.calls :
         LET c == call.calls[k]
         IN  /\ c.next > c.pos
             /\ c.next <= 2 * RowLen + 1
             /\ (c.tok = "<NULL>" \/ c.pos >= RowLen) =>
                  /\ c.fn_str = "scene"
                  /\ c.inputs = <<Feat(c.i)>>
                  /\ c.next = c.pos + 1
    /\ \A i \in 0..(x - 1) :
         /\ Len(CallsOf(i)) >= 1
         /\ Len(CallsOf(i)) <= 2 * RowLen + 1
         /\ \A k1 \in DOMAIN CallsOf(i) : \A k2 \in DOMAIN CallsOf(i) :
              k1 # k2 => CallsOf(i)[k1].pos # CallsOf(i)[k2].pos

\* the row And And And has been evaluated: 2 * 3 + 1 module calls, four of
\* them scene leaves read past the end of the row
C17_Witness ==
  /\ ForwardDone("ints")
  /\ RowLen = 3
  /\ RowNames(0) = <<"And", "And", "And">>
  /\ Len(CallsOf(0)) = 7
  /\ Count(CallsOf(0), Implicit) = 4
====
